---- MODULE Spec2Model ----
(***************************************************************************)
(* Model of src/multiprocessing.py: a ProcessPoolExecutor packages records *)
(* (get_item) in batches, the main control path collects the completed     *)
(* futures into `results`, flushes `results` to a webdataset ShardWriter   *)
(* whenever it grows beyond a threshold, and flushes the rest at the end.  *)
(*                                                                         *)
(* The literals of the script (batch 10000, threshold 1000, 16 workers,    *)
(* maxcount 1000, maxsize 3e9) are the fields of the record `cfg`, chosen  *)
(* in Init from small ranges and never changed afterwards.                 *)
(***************************************************************************)
EXTENDS Integers, Sequences, FiniteSets, TLC

\* ---- bounds of the model ------------------------------------------------
MaxItems == 3
MaxFiles == 3
MaxBatch == 2
MaxThreshold == 1
MaxWorkers == 2
MaxCountCap == 2

\* maxsize=3e9 of the ShardWriter call, counted in units of 10^6 bytes like
\* every size of the model: no run of the model reaches it.
DefaultMaxSize == 3000

\* Serialized sizes an item can have, and the size caps tried: an item can be
\* below, at or above a cap, and two items that fit can exceed it together.
ItemSizes == {2, 4}

SizeCaps == {3, 4, DefaultMaxSize}

VARIABLES
    cfg,       \* [n, batch, threshold, max_workers, maxcount, maxsize]
    env,       \* [faulty: records whose task may raise, disk: writes may fail,
               \*  sizes, records: the source records, files: os.listdir(IMAGE_BASE)]
    items,     \* the list `items`: records not yet submitted (source positions)
    futures,   \* the dict `futures` of the current batch: record -> future
    finished,  \* as_completed: futures found finished when iteration starts
    pending,   \* as_completed: futures not yet yielded and not in `finished`
    waiter,    \* as_completed: futures finished since, in finishing order
    results,   \* the list `results`
    wi,        \* position of the `for result in results` loop (1-based)
    sink,      \* the ShardWriter: [shard, count, size, tars]
    err,       \* the exception that left the `with` blocks, or NoExc
    pc,        \* position of the main control path
    started,   \* history: records whose get_item call began in a worker
    raised,    \* history: records whose get_item call raised
    submits    \* history: record -> number of executor.submit calls for it

vars == <<cfg, env, items, futures, finished, pending, waiter, results, wi,
          sink, err, pc, started, raised, submits>>

\* ---- values ---------------------------------------------------------------
NoFile == <<0, 0>>
NoExc == [type |-> "none", filename |-> NoFile]
NoItem == [key |-> 0, size |-> 0]

\* ---- strings ---------------------------------------------------------------
\* A str is the sequence of its characters.
Digits == <<"0", "1", "2", "3", "4", "5", "6", "7", "8", "9">>

\* ord(c) for the characters of the file names.
ord(c) ==
    IF \E i \in 1..10 : Digits[i] = c
    THEN 47 + (CHOOSE i \in 1..10 : Digits[i] = c)
    ELSE CASE c = "." -> 46 [] c = "_" -> 95 [] c = "g" -> 103
           [] c = "j" -> 106 [] c = "p" -> 112

\* str(n) for n >= 0
RECURSIVE str(_)
str(n) == IF n < 10 THEN <<Digits[n + 1]>> ELSE str(n \div 10) \o <<Digits[(n % 10) + 1]>>

\* a < b on str: the first differing character decides, a proper prefix is less.
RECURSIVE str_lt(_, _)
str_lt(a, b) ==
    IF a = << >> THEN b # << >>
    ELSE IF b = << >> THEN FALSE
    ELSE IF Head(a) = Head(b) THEN str_lt(Tail(a), Tail(b))
    ELSE ord(Head(a)) < ord(Head(b))

\* filename.split("_")[0]: what precedes the first "_", or the whole name.
RECURSIVE split_first(_)
split_first(name) ==
    IF name = << >> \/ Head(name) = "_" THEN << >>
    ELSE <<Head(name)>> \o split_first(Tail(name))

\* The file name `{id}_{n}.jpg`.
FileName(id, n) == id \o <<"_">> \o str(n) \o <<".", "j", "p", "g">>

\* sorted(list) of str: insertion into the sorted rest, equal names keep
\* their order.
RECURSIVE insort(_, _)
insort(x, l) ==
    IF l = << >> THEN <<x>>
    ELSE IF str_lt(Head(l), x) THEN <<Head(l)>> \o insort(x, Tail(l))
    ELSE <<x>> \o l

RECURSIVE sorted(_)
sorted(l) == IF l = << >> THEN << >> ELSE insort(Head(l), sorted(Tail(l)))

\* ---- get_item ---------------------------------------------------------------
\* Mutant of item_files: the matching files are taken in listing order.
item_files_Unsorted(id, files) ==
    SelectSeq(files, LAMBDA filename : split_first(filename) = id)

\* Mutant of item_files: a file matches when its name starts with the id.
item_files_StartsWith(id, files) ==
    sorted(SelectSeq(files, LAMBDA filename :
        Len(filename) >= Len(id) /\ SubSeq(filename, 1, Len(id)) = id))

\* Lines 37-39: the files of the listing whose name up to the first "_" is
\* the id, sorted.
item_files(id, files) ==
    sorted(SelectSeq(files, LAMBDA filename : split_first(filename) = id))

\* (IMAGE_BASE / file).read_bytes(): the content of that file.
read_bytes(file) == [bytes_of |-> file]

\* Mutant of slots: the slot names start at 0.jpg.
slots_FromZero(sf) ==
    { <<idx, read_bytes(sf[idx + 1])>> : idx \in 0..(Len(sf) - 1) }

\* Lines 40-43: the dict {f"{idx+1}.jpg": bytes} over enumerate(item_files);
\* an entry is the pair of the slot number idx+1 and the bytes.
slots(sf) ==
    { <<idx + 1, read_bytes(sf[idx + 1])>> : idx \in 0..(Len(sf) - 1) }

\* Mutant of get_item: the metadata stored is the id alone.
get_item_IdOnly(r, s) ==
    LET item == env.records[r]
    IN  [key |-> item.id, json |-> [id |-> item.id],
         files |-> slots(item_files(item.id, env.files)), size |-> s]

\* get_item(item), lines 44-46: the key is the record's id, "json" the
\* record, the slots are added. `s` is the size the item serializes to.
get_item(r, s) ==
    LET item == env.records[r]
    IN  [key |-> item.id, json |-> item,
         files |-> slots(item_files(item.id, env.files)), size |-> s]

\* What a get_item call can raise: read_bytes of one of the record's files
\* (an OSError naming the file `{id}_n.jpg`), or an error that names nothing.
TaskExceptions(r) ==
    { [type |-> "OSError", filename |-> <<r, 1>>],
      [type |-> "MemoryError", filename |-> NoFile] }

WriteException == [type |-> "WriteError", filename |-> NoFile]

Future(state, result, exception) ==
    [state |-> state, result |-> result, exception |-> exception]

Range(s) == { s[i] : i \in 1..Len(s) }

Min(a, b) == IF a < b THEN a ELSE b

\* ---- ShardWriter ----------------------------------------------------------
\* next_stream: close the current tar, open the next one, reset the counters.
next_stream(s) ==
    [shard |-> s.shard + 1, count |-> 0, size |-> 0, tars |-> Append(s.tars, <<>>)]

\* ShardWriter(pattern, maxcount, maxsize): opens shard 0 on construction.
ShardWriterInit ==
    next_stream([shard |-> 0, count |-> 0, size |-> 0, tars |-> <<>>])

\* Mutant of MustRotate: the size cap is not looked at.
MustRotate_CountOnly(s) == s.count >= cfg.maxcount

\* Mutant of MustRotate: the caps are compared with > instead of >=.
MustRotate_Late(s) == s.count > cfg.maxcount \/ s.size > cfg.maxsize

\* The rotation test made before an item is accepted.
MustRotate(s) == s.count >= cfg.maxcount \/ s.size >= cfg.maxsize

\* sink.write(item)
ShardWrite(s, item) ==
    LET t == IF MustRotate(s) THEN next_stream(s) ELSE s
    IN  [t EXCEPT !.count = @ + 1,
                  !.size = @ + item.size,
                  !.tars[Len(t.tars)] = Append(@, item)]

\* ---- initial states -------------------------------------------------------
\* The records of `items`: ids "1", "2", ... and one more metadata field.
DefaultRecords(n) == [r \in 1..n |-> [id |-> str(r), caption |-> r]]

\* A listing: two files of record 1 out of order, one of record 2.
DefaultFiles ==
    <<FileName(str(1), 1), FileName(str(2), 0), FileName(str(1), 0)>>

Environment(faulty, disk, sizes, n) ==
    [faulty |-> faulty, disk |-> disk, sizes |-> sizes,
     records |-> DefaultRecords(n), files |-> DefaultFiles]

\* The worker count and the count cap take their smallest and largest value.
Configs ==
    [n : 0..MaxItems, batch : 1..MaxBatch, threshold : 0..MaxThreshold,
     max_workers : {1, MaxWorkers}, maxcount : {1, MaxCountCap},
     maxsize : SizeCaps]

InitWith(c, e) ==
    /\ cfg = c
    /\ env = e
    /\ items = [i \in 1..c.n |-> i]
    /\ futures = << >>
    /\ finished = {}
    /\ pending = {}
    /\ waiter = << >>
    /\ results = << >>
    /\ wi = 1
    /\ sink = ShardWriterInit
    /\ err = NoExc
    /\ pc = "while"
    /\ started = {}
    /\ raised = {}
    /\ submits = [r \in 1..c.n |-> 0]

Init ==
    \E c \in Configs :
        InitWith(c, Environment(1..c.n, TRUE, ItemSizes, c.n))

\* ---- main control path ----------------------------------------------------
\* Mutant of Batch: the slice submitted is one longer than the slice deleted.
Batch_OneMore == SubSeq(items, 1, Min(cfg.batch + 1, Len(items)))

\* Lines 78-83: take a batch, submit one future per item, delete the batch.
Batch == SubSeq(items, 1, Min(cfg.batch, Len(items)))

\* Mutant of Rest: the slice deleted is one longer than the batch submitted.
Rest_DeletesOneMore == SubSeq(items, Min(cfg.batch, Len(items)) + 2, Len(items))

Rest == SubSeq(items, Min(cfg.batch, Len(items)) + 1, Len(items))

Submit ==
    /\ pc = "while"
    /\ items # << >>
    /\ futures' = [r \in Range(Batch) |-> Future("PENDING", NoItem, NoExc)]
    /\ submits' = [r \in DOMAIN submits |->
                      IF r \in Range(Batch) THEN submits[r] + 1 ELSE submits[r]]
    /\ items' = Rest
    /\ pc' = "as_completed"
    /\ UNCHANGED <<cfg, env, finished, pending, waiter, results, wi, sink, err,
                   started, raised>>

\* Lines 84-86: as_completed(futures) starts: the futures already finished
\* are yielded first (in the iteration order of a set), the others as they
\* finish.
AsCompleted ==
    /\ pc = "as_completed"
    /\ finished' = { r \in DOMAIN futures : futures[r].state = "FINISHED" }
    /\ pending' = { r \in DOMAIN futures : futures[r].state # "FINISHED" }
    /\ waiter' = << >>
    /\ pc' = "collect"
    /\ UNCHANGED <<cfg, env, items, futures, results, wi, sink, err, started,
                   raised, submits>>

\* Mutant of Received: the flush test is `len(results) >= threshold`.
Received_FlushAtThreshold(f) ==
    IF futures[f].exception # NoExc
    THEN /\ err' = futures[f].exception
         /\ pc' = "error"
         /\ UNCHANGED <<results, wi>>
    ELSE /\ results' = Append(results, futures[f].result)
         /\ wi' = 1
         /\ pc' = IF Len(results') >= cfg.threshold THEN "flush" ELSE "collect"
         /\ err' = err

\* Mutant of Received: the exception of a failed future is caught and noted,
\* and the loop goes on.
Received_SwallowsException(f) ==
    IF futures[f].exception # NoExc
    THEN /\ err' = futures[f].exception
         /\ pc' = "collect"
         /\ UNCHANGED <<results, wi>>
    ELSE /\ results' = Append(results, futures[f].result)
         /\ wi' = 1
         /\ pc' = IF Len(results') > cfg.threshold THEN "flush" ELSE "collect"
         /\ err' = err

\* Mutant of Received: the result is put at the front of `results`.
Received_Prepends(f) ==
    IF futures[f].exception # NoExc
    THEN /\ err' = futures[f].exception
         /\ pc' = "error"
         /\ UNCHANGED <<results, wi>>
    ELSE /\ results' = <<futures[f].result>> \o results
         /\ wi' = 1
         /\ pc' = IF Len(results') > cfg.threshold THEN "flush" ELSE "collect"
         /\ err' = err

\* Mutant of Received: the exception of a failed future ends the loops and the
\* results in hand are flushed by lines 93-94.
Received_FlushesOnError(f) ==
    IF futures[f].exception # NoExc
    THEN /\ err' = futures[f].exception
         /\ pc' = IF results = << >> THEN "error" ELSE "final"
         /\ UNCHANGED <<results, wi>>
    ELSE /\ results' = Append(results, futures[f].result)
         /\ wi' = 1
         /\ pc' = IF Len(results') > cfg.threshold THEN "flush" ELSE "collect"
         /\ err' = err

\* Lines 87-89 for the future f that as_completed yields.
Received(f) ==
    IF futures[f].exception # NoExc
    THEN /\ err' = futures[f].exception
         /\ pc' = "error"
         /\ UNCHANGED <<results, wi>>
    ELSE /\ results' = Append(results, futures[f].result)
         /\ wi' = 1
         /\ pc' = IF Len(results') > cfg.threshold THEN "flush" ELSE "collect"
         /\ err' = err

Collect ==
    /\ pc = "collect"
    /\ \/ \E f \in finished :
            /\ finished' = finished \ {f}
            /\ UNCHANGED <<pending, waiter>>
            /\ Received(f)
       \/ /\ finished = {}
          /\ waiter # << >>
          /\ waiter' = Tail(waiter)
          /\ pending' = pending \ {Head(waiter)}
          /\ finished' = finished
          /\ Received(Head(waiter))
    /\ UNCHANGED <<cfg, env, items, futures, sink, started, raised, submits>>

\* as_completed is exhausted: back to `while items`.
EndBatch ==
    /\ pc = "collect"
    /\ finished = {}
    /\ pending = {}
    /\ pc' = "while"
    /\ UNCHANGED <<cfg, env, items, futures, finished, pending, waiter, results,
                   wi, sink, err, started, raised, submits>>

\* Mutant of WriteResult: the loop walks `results` from its end.
WriteResult_Reversed(next_pc, cleared) ==
    \/ /\ env.disk
       /\ err' = WriteException
       /\ pc' = "error"
       /\ UNCHANGED <<results, wi, sink>>
    \/ /\ sink' = ShardWrite(sink, results[Len(results) + 1 - wi])
       /\ IF wi = Len(results)
          THEN /\ results' = cleared
               /\ wi' = 1
               /\ pc' = next_pc
          ELSE /\ wi' = wi + 1
               /\ UNCHANGED <<results, pc>>
       /\ err' = err

\* One sink.write of a `for result in results` loop: it raises, or it writes.
WriteResult(next_pc, cleared) ==
    \/ /\ env.disk
       /\ err' = WriteException
       /\ pc' = "error"
       /\ UNCHANGED <<results, wi, sink>>
    \/ /\ sink' = ShardWrite(sink, results[wi])
       /\ IF wi = Len(results)
          THEN /\ results' = cleared
               /\ wi' = 1
               /\ pc' = next_pc
          ELSE /\ wi' = wi + 1
               /\ UNCHANGED <<results, pc>>
       /\ err' = err

\* Mutant of Flush: `results = []` is forgotten.
Flush_KeepsResults ==
    /\ pc = "flush"
    /\ WriteResult("collect", results)
    /\ UNCHANGED <<cfg, env, items, futures, finished, pending, waiter,
                   started, raised, submits>>

\* Lines 90-92: write every result, then `results = []`.
Flush ==
    /\ pc = "flush"
    /\ WriteResult("collect", << >>)
    /\ UNCHANGED <<cfg, env, items, futures, finished, pending, waiter,
                   started, raised, submits>>

\* Mutant of ExitLoop: lines 93-94 are missing.
ExitLoop_WithoutFinalFlush ==
    /\ pc = "while"
    /\ items = << >>
    /\ pc' = "done"
    /\ wi' = 1
    /\ UNCHANGED <<cfg, env, items, futures, finished, pending, waiter, results,
                   sink, err, started, raised, submits>>

\* Line 78 false: the executor block ends, lines 93-94 begin.
ExitLoop ==
    /\ pc = "while"
    /\ items = << >>
    /\ pc' = IF results = << >> THEN "done" ELSE "final"
    /\ wi' = 1
    /\ UNCHANGED <<cfg, env, items, futures, finished, pending, waiter, results,
                   sink, err, started, raised, submits>>

\* Lines 93-94: the remaining results are written; `results` is not cleared.
FinalFlush ==
    /\ pc = "final"
    /\ WriteResult("done", results)
    /\ UNCHANGED <<cfg, env, items, futures, finished, pending, waiter,
                   started, raised, submits>>

\* Mutant of Abort: the exception leaves at once and the queued calls are
\* dropped.
Abort_WithoutWaiting ==
    /\ pc = "error"
    /\ pc' = "aborted"
    /\ futures' = [r \in DOMAIN futures |->
                      IF futures[r].state = "FINISHED" THEN futures[r]
                      ELSE Future("FINISHED", NoItem, NoExc)]
    /\ UNCHANGED <<cfg, env, items, finished, pending, waiter, results,
                   wi, sink, err, started, raised, submits>>

\* An exception leaves the executor's `with` block: shutdown(wait=True) waits
\* for every submitted future, then the exception leaves the program.
Abort ==
    /\ pc = "error"
    /\ \A r \in DOMAIN futures : futures[r].state = "FINISHED"
    /\ pc' = "aborted"
    /\ UNCHANGED <<cfg, env, items, futures, finished, pending, waiter, results,
                   wi, sink, err, started, raised, submits>>

\* ---- worker processes -----------------------------------------------------
Running == { r \in DOMAIN futures : futures[r].state = "RUNNING" }

Queued == { r \in DOMAIN futures : futures[r].state = "PENDING" }

\* A free worker takes the oldest queued call.
TaskStart ==
    /\ Queued # {}
    /\ Cardinality(Running) < cfg.max_workers
    /\ LET r == CHOOSE q \in Queued : \A o \in Queued : q <= o
       IN  /\ futures' = [futures EXCEPT ![r].state = "RUNNING"]
           /\ started' = started \cup {r}
    /\ UNCHANGED <<cfg, env, items, finished, pending, waiter, results, wi,
                   sink, err, pc, raised, submits>>

\* The waiter as_completed installed records every future that finishes
\* while the iteration is going on.
Notify(r) ==
    IF pc \in {"collect", "flush"} /\ r \in pending
    THEN waiter' = Append(waiter, r)
    ELSE waiter' = waiter

\* Mutant of TaskFinish: the worker writes the item to the sink itself.
TaskFinish_WritesToSink ==
    /\ \E r \in Running :
          /\ \/ \E s \in env.sizes :
                   /\ futures' = [futures EXCEPT
                                    ![r] = Future("FINISHED", get_item(r, s), NoExc)]
                   /\ sink' = ShardWrite(sink, get_item(r, s))
                   /\ raised' = raised
             \/ /\ r \in env.faulty
                /\ \E e \in TaskExceptions(r) :
                      futures' = [futures EXCEPT ![r] = Future("FINISHED", NoItem, e)]
                /\ raised' = raised \cup {r}
                /\ sink' = sink
          /\ Notify(r)
    /\ UNCHANGED <<cfg, env, items, finished, pending, results, wi, err,
                   pc, started, submits>>

\* get_item returns in a worker, or raises.
TaskFinish ==
    /\ \E r \in Running :
          /\ \/ \E s \in env.sizes :
                   /\ futures' = [futures EXCEPT
                                    ![r] = Future("FINISHED", get_item(r, s), NoExc)]
                   /\ raised' = raised
             \/ /\ r \in env.faulty
                /\ \E e \in TaskExceptions(r) :
                      futures' = [futures EXCEPT ![r] = Future("FINISHED", NoItem, e)]
                /\ raised' = raised \cup {r}
          /\ Notify(r)
    /\ UNCHANGED <<cfg, env, items, finished, pending, results, wi, sink, err,
                   pc, started, submits>>

Next ==
    \/ Submit
    \/ AsCompleted
    \/ Collect
    \/ EndBatch
    \/ Flush
    \/ ExitLoop
    \/ FinalFlush
    \/ Abort
    \/ TaskStart
    \/ TaskFinish

Spec == Init /\ [][Next]_vars

\* ---- observers --------------------------------------------------------------
RECURSIVE Flatten(_)
Flatten(ss) == IF ss = << >> THEN << >> ELSE Head(ss) \o Flatten(Tail(ss))

\* Every item written so far, in the order of the sink.write calls.
Written == Flatten(sink.tars)

Records == 1..cfg.n

\* The record (its source position) that has the id `key`.
PosOf(key) == CHOOSE r \in Records : env.records[r].id = key

\* The records written so far.
WrittenKeys == { PosOf(Written[i].key) : i \in 1..Len(Written) }

Occurrences(r) ==
    Cardinality({ i \in 1..Len(Written) : Written[i].key = env.records[r].id })

RECURSIVE SumLen(_)
SumLen(ss) == IF ss = << >> THEN 0 ELSE Len(Head(ss)) + SumLen(Tail(ss))

\* ---- C1 ---------------------------------------------------------------------
\* C1: when a run completes without error, every input record's key has been
\* written to the shard writer exactly once, and the record counts of the
\* shards add up to the number of input records.
C1_NoLossNoDuplication ==
    pc = "done" =>
        /\ \A r \in Records : Occurrences(r) = 1
        /\ SumLen(sink.tars) = cfg.n

\* A completed run of three records that went through two batches, a
\* threshold flush and the final flush, into more than one shard.
C1_Witness ==
    /\ pc = "done"
    /\ cfg.n = 3
    /\ cfg.batch = 2
    /\ cfg.threshold = 1
    /\ Len(sink.tars) >= 2
    /\ PosOf(Written[1].key) = 2

\* ---- C2 ---------------------------------------------------------------------
CurrentTar == sink.tars[Len(sink.tars)]

\* The item written last into the current shard (when it holds one).
LastItem == CurrentTar[Len(CurrentTar)]

\* C2 as stated: in every reachable state count <= maxcount and
\* size <= maxsize, except right after writing a single item whose own size
\* exceeds maxsize.
C2_CapsExceptOversizedItem ==
    /\ sink.count <= cfg.maxcount
    /\ \/ sink.size <= cfg.maxsize
       \/ sink.count >= 1 /\ LastItem.size > cfg.maxsize

\* C2 as amended: count <= maxcount always; size may exceed maxsize only in
\* the states after writing an item into a shard that was still below
\* maxsize, whatever the size of that item.
C2_CapsExceptLastItem ==
    /\ sink.count <= cfg.maxcount
    /\ sink.count = Len(CurrentTar)
    /\ \/ sink.size <= cfg.maxsize
       \/ sink.count >= 1 /\ sink.size - LastItem.size < cfg.maxsize

\* Two items that each fit under the cap exceed it together.
C2_Witness ==
    /\ sink.size > cfg.maxsize
    /\ sink.count = 2
    /\ \A i \in 1..Len(CurrentTar) : CurrentTar[i].size <= cfg.maxsize

\* ---- C3 ---------------------------------------------------------------------
\* Scenario D of the specification: ten records, the task of record 5 raises,
\* writes do not fail. The batch size, threshold and worker count vary.
ScenarioD == [n |-> 10, fails |-> 5]

ConfigsD ==
    [n : {ScenarioD.n}, batch : {1, 4}, threshold : {0, 3},
     max_workers : {1, 2}, maxcount : {2}, maxsize : {DefaultMaxSize}]
    \cup
    [n : {ScenarioD.n}, batch : {5}, threshold : {0, 3},
     max_workers : {1}, maxcount : {2}, maxsize : {DefaultMaxSize}]

InitD ==
    \E c \in ConfigsD :
        InitWith(c, Environment({ScenarioD.fails}, FALSE, {2}, c.n))

SpecD == InitD /\ [][Next]_vars

\* The last record of the batch that holds record r.
BatchEnd(r) == Min(cfg.n, ((r + cfg.batch - 1) \div cfg.batch) * cfg.batch)

Keys(seq) == { PosOf(seq[i].key) : i \in 1..Len(seq) }

\* C3 as stated: after the task of record 5 failed and the run aborted,
\* records 1-4 are in the shards and the tasks of records 6-10 never ran.
C3_ScenarioD ==
    (pc = "aborted" /\ ScenarioD.fails \in raised) =>
        /\ 1..(ScenarioD.fails - 1) \subseteq WrittenKeys
        /\ started \cap ((ScenarioD.fails + 1)..cfg.n) = {}

\* C3 as amended: once the task of record 5 has raised the run never
\* completes; when it has aborted, every record of the batches up to the
\* one holding record 5 was packaged and no record of a later batch was, and
\* the shards hold exactly what the threshold flushes wrote before the
\* failure was seen: whole flushes of threshold+1 items, never record 5,
\* never an item still in `results`.
C3_ScenarioD_Amended ==
    /\ ScenarioD.fails \in raised => pc \notin {"while", "final", "done"}
    /\ (pc = "aborted" /\ ScenarioD.fails \in raised) =>
          /\ err \in TaskExceptions(ScenarioD.fails)
          /\ started = 1..BatchEnd(ScenarioD.fails)
          /\ WrittenKeys \subseteq (1..BatchEnd(ScenarioD.fails)) \ {ScenarioD.fails}
          /\ Len(Written) % (cfg.threshold + 1) = 0
          /\ WrittenKeys \cap Keys(results) = {}

\* The scenario as the specification tells it: batch of five, records 1-4
\* flushed before the failure of record 5 is seen, records 6-10 never ran.
C3_Witness ==
    /\ pc = "aborted"
    /\ ScenarioD.fails \in raised
    /\ cfg.batch = 5
    /\ WrittenKeys = 1..4
    /\ started = 1..5

\* ---- C4 ---------------------------------------------------------------------
NoSizeCap == cfg.maxsize = DefaultMaxSize

\* The source positions maxCount assigns to shard j (j = 0, 1, ...).
Positions(j) == (j * cfg.maxcount + 1)..Min((j + 1) * cfg.maxcount, cfg.n)

ShardCount == IF cfg.n = 0 THEN 1 ELSE (cfg.n + cfg.maxcount - 1) \div cfg.maxcount

Oversized(item) == item.size > cfg.maxsize

\* C5 as stated: a shard that holds an oversized item holds nothing else and
\* has been rotated away (it is not the current shard any more).
C5_OversizedAloneAndRotated ==
    \A j \in 1..Len(sink.tars) : \A i \in 1..Len(sink.tars[j]) :
        Oversized(sink.tars[j][i]) => Len(sink.tars[j]) = 1 /\ j < Len(sink.tars)

\* C5 as amended: a write of an oversized item puts the item into the shard
\* that is current for it (after the rotation test, so the shard may already
\* hold earlier items) and leaves that shard at or above the size cap, and
\* no later item is ever added to that shard: an oversized item is the last
\* item of its shard. The shard is rotated by the next write, not before.
C5_OversizedIsLastOfItsShard ==
    /\ [](\A j \in 1..Len(sink.tars) : \A i \in 1..Len(sink.tars[j]) :
            Oversized(sink.tars[j][i]) => i = Len(sink.tars[j]))
    /\ [][(sink' # sink /\ Oversized(results[wi])) =>
            /\ sink'.tars[Len(sink'.tars)][sink'.count] = results[wi]
            /\ Len(sink'.tars) = Len(sink.tars) + (IF MustRotate(sink) THEN 1 ELSE 0)
            /\ sink'.size >= cfg.maxsize]_vars

\* An oversized item was written into a shard that already held an item, and
\* the next item went into the next shard.
C5_Witness ==
    /\ Len(sink.tars) >= 2
    /\ Len(sink.tars[1]) = 2
    /\ ~Oversized(sink.tars[1][1])
    /\ Oversized(sink.tars[1][2])
    /\ Len(sink.tars[2]) >= 1

\* ---- C6 ---------------------------------------------------------------------
\* The future the collector took in a step (as_completed yielded it).
Taken == (finished \ finished') \cup (pending \ pending')

\* C6: the collector appends the item of every future it receives to
\* `results`; exactly when `results` is then longer than the threshold it
\* writes every item of `results` in order and empties it; while a batch is
\* drained nothing is written to the shard writer otherwise.
C6_FlushExactlyAboveThreshold ==
    /\ [](pc = "flush" =>
            /\ Len(results) > cfg.threshold
            /\ wi \in 1..Len(results)
            /\ Len(Written) >= wi - 1
            /\ SubSeq(Written, Len(Written) - wi + 2, Len(Written))
                   = SubSeq(results, 1, wi - 1))
    /\ [][(pc = "collect" /\ Taken # {} /\ err' = NoExc) =>
            /\ \E f \in Taken : results' = Append(results, futures[f].result)
            /\ pc' = "flush" <=> Len(results') > cfg.threshold
            /\ pc' \in {"flush", "collect"}
            /\ sink' = sink]_vars
    /\ [][(sink' # sink /\ pc # "final") =>
            /\ pc = "flush"
            /\ Written' = Append(Written, results[wi])
            /\ IF wi = Len(results)
               THEN results' = << >> /\ pc' = "collect"
               ELSE results' = results /\ wi' = wi + 1 /\ pc' = "flush"]_vars

\* In the middle of a threshold flush: the first buffered item is written,
\* the second is next.
C6_Witness ==
    /\ pc = "flush"
    /\ cfg.threshold = 1
    /\ Len(results) = 2
    /\ wi = 2
    /\ Written[Len(Written)] = results[1]

\* ---- C7 ---------------------------------------------------------------------
\* Records whose get_item call returned: their item is in a future of the
\* current batch or in `results`.
Packaged ==
    Keys(results) \cup
    { r \in DOMAIN futures :
        futures[r].state = "FINISHED" /\ futures[r].exception = NoExc }

\* Fully packaged items held in memory and not yet written to a shard.
FinishedUnwritten == Cardinality(Packaged \ WrittenKeys)

\* C7 as stated: the number of packaged but unwritten items is bounded by a
\* function of the flush threshold alone (the length `results` can reach).
C7_BoundedByThresholdAlone == FinishedUnwritten <= cfg.threshold + 1

\* C7 as amended: `results` never holds more than threshold+1 items, whatever
\* the batch size; the packaged but unwritten items also count the finished
\* futures of the current batch, and are at most threshold + batch size.
C7_BoundedByThresholdAndBatch ==
    /\ Len(results) <= cfg.threshold + 1
    /\ FinishedUnwritten <= cfg.threshold + cfg.batch

\* The whole batch has finished while nothing of it is collected.
C7_Witness ==
    /\ cfg.batch = 2
    /\ FinishedUnwritten = cfg.threshold + cfg.batch
    /\ FinishedUnwritten > cfg.threshold + 1

\* ---- C8 ---------------------------------------------------------------------
\* Whether a run ends does not depend on the caps of the shard writer: they
\* are fixed here, everything else varies as in Init.
InitLive ==
    \E c \in Configs :
        /\ c.maxcount = MaxCountCap
        /\ c.maxsize = DefaultMaxSize
        /\ InitWith(c, Environment(1..c.n, TRUE, ItemSizes, c.n))

\* The worker processes and the main path keep running: a step that stays
\* possible is eventually taken.
FairSpec == InitLive /\ [][Next]_vars /\ WF_vars(Next)

\* C8: under fair scheduling the run ends; unless a task or a write failed it
\* ends at "done" with every record written, the items left in `results`
\* after the last batch included, however few they are.
C8_TerminatesWithEverythingWritten ==
    <>(\/ pc = "aborted" /\ err # NoExc
       \/ pc = "done" /\ err = NoExc /\ WrittenKeys = Records)

\* A completed run whose last items were written by the final flush although
\* `results` was not longer than the threshold.
C8_Witness ==
    /\ pc = "done"
    /\ results # << >>
    /\ Len(results) <= cfg.threshold
    /\ Keys(results) \subseteq WrittenKeys
    /\ WrittenKeys = Records

\* ---- C9 ---------------------------------------------------------------------
\* C9: once an exception of a task or of a write has reached the main path,
\* nothing more is written to a shard, no batch is submitted, `results` and
\* the exception stay as they are, and the main path is on its way out; no
\* record is ever submitted twice.
C9_FailFast ==
    /\ [][err # NoExc =>
            /\ sink' = sink
            /\ items' = items
            /\ submits' = submits
            /\ DOMAIN futures' = DOMAIN futures
            /\ results' = results
            /\ err' = err
            /\ pc' \in {"error", "aborted"}]_vars
    /\ [](\A r \in Records : submits[r] <= 1)
    /\ [](err # NoExc <=> pc \in {"error", "aborted"})

\* A run aborted by a task failure with a batch never submitted and an item
\* never written.
C9_Witness ==
    /\ pc = "aborted"
    /\ err.type = "OSError"
    /\ items # << >>
    /\ results # << >>

\* ---- C10 --------------------------------------------------------------------
\* The record an exception names: the id before `_` in its file name, if any.
RecordNamed(e) == e.filename[1]

\* C10: the exception of a failed task that reaches the main path names the
\* record whose task failed.
C10_ErrorCarriesRecordId ==
    (err # NoExc /\ err # WriteException) =>
        RecordNamed(err) \in raised

\* ---- C11 --------------------------------------------------------------------
\* The resolver on its own inputs: the records "42", "4" and "42_1" (an id
\* that no name up to its first "_" can equal), and every listing of at most
\* MaxFiles distinct names, in every order, among files of "42" (one sorting
\* before "42_2.jpg" although numbered 10), a file of "4", and a name
\* without "_".
Id42 == <<"4", "2">>

Id4 == <<"4">>

Id42_1 == <<"4", "2", "_", "1">>

FileUniverse ==
    { FileName(Id42, 0), FileName(Id42, 1), FileName(Id42, 2),
      FileName(Id42, 10), FileName(Id4, 0), Id42 \o <<".", "j", "p", "g">> }

Listings ==
    UNION { { l \in [1..k -> FileUniverse] :
                \A i, j \in 1..k : l[i] = l[j] => i = j } : k \in 0..MaxFiles }

RecordsR ==
    <<[id |-> Id42, caption |-> 1], [id |-> Id4, caption |-> 2],
      [id |-> Id42_1, caption |-> 3]>>

ConfigR ==
    [n |-> Len(RecordsR), batch |-> 2, threshold |-> 1, max_workers |-> 2,
     maxcount |-> 2, maxsize |-> DefaultMaxSize]

InitR ==
    \E l \in Listings :
        InitWith(ConfigR, [faulty |-> {3}, disk |-> TRUE, sizes |-> {2},
                           records |-> RecordsR, files |-> l])

SpecR == InitR /\ [][Next]_vars

\* The files of the listing that belong to the id.
Matches(id) ==
    { f \in Range(env.files) :
        \E k \in 1..Len(f) :
            /\ f[k] = "_"
            /\ SubSeq(f, 1, k - 1) = id
            /\ \A i \in 1..(k - 1) : f[i] # "_" }

\* The file whose bytes a slot holds.
FileOf(files, k) == (CHOOSE e \in files : e[1] = k)[2].bytes_of

\* The items packaged so far: the results of the futures.
PackagedItems ==
    { futures[r].result : r \in { q \in DOMAIN futures :
        futures[q].state = "FINISHED" /\ futures[q].exception = NoExc } }

\* C11: the slots of a packaged item are numbered 1..N without gap, N the
\* number of files whose name up to the first "_" is the id; the files of
\* the slots are exactly those files, in strictly increasing lexicographic
\* order; with no such file there is no slot.
C11_SlotsAreSortedMatches ==
    \A it \in PackagedItems :
        LET N == Cardinality(Matches(it.key))
        IN  /\ { e[1] : e \in it.files } = 1..N
            /\ Cardinality(it.files) = N
            /\ { FileOf(it.files, k) : k \in 1..N } = Matches(it.key)
            /\ \A k \in 1..(N - 1) :
                  str_lt(FileOf(it.files, k), FileOf(it.files, k + 1))

\* Scenario C: 42_2.jpg, 42_1.jpg, 42_0.jpg listed in that order give the
\* slots 1, 2, 3 = 42_0.jpg, 42_1.jpg, 42_2.jpg; the record "4" has none.
C11_Witness ==
    /\ env.files = <<FileName(Id42, 2), FileName(Id42, 1), FileName(Id42, 0)>>
    /\ \E it \in PackagedItems :
          /\ it.key = Id42
          /\ it.files = { <<1, read_bytes(FileName(Id42, 0))>>,
                          <<2, read_bytes(FileName(Id42, 1))>>,
                          <<3, read_bytes(FileName(Id42, 2))>> }
    /\ \E it \in PackagedItems : it.key = Id4 /\ it.files = {}

\* ---- C12 --------------------------------------------------------------------
\* The entries stored under a key in the shards.
Stored(key) == { i \in 1..Len(Written) : Written[i].key = key }

\* C12: whatever the order of completion, an entry written to a shard is the
\* only one under its key, its key is the id of a source record, its metadata
\* is that record, and its payload is the bytes of exactly the files of that
\* record.
C12_RoundTrip ==
    \A i \in 1..Len(Written) :
        LET w == Written[i]
        IN  /\ Stored(w.key) = {i}
            /\ \E r \in Records :
                  /\ env.records[r].id = w.key
                  /\ w.json = env.records[r]
            /\ { e[2] : e \in w.files } = { read_bytes(f) : f \in Matches(w.key) }
            /\ Cardinality(w.files) = Cardinality(Matches(w.key))

\* Record "4" was written before record "42", which has files; both are
\* stored with their own metadata.
C12_Witness ==
    /\ Len(Written) = 2
    /\ Written[1].json = RecordsR[2]
    /\ Written[2].json = RecordsR[1]
    /\ Cardinality(Written[2].files) >= 2
    /\ Written[1].files # {}

\* ---- C13 --------------------------------------------------------------------
\* The batch (counted from 0) that the record at source position r goes into.
BatchOf(r) == (r - 1) \div cfg.batch

\* The records the collector has received from as_completed.
Collected == Keys(results) \cup WrittenKeys

\* C13: a record of a batch is submitted only when every record of every
\* earlier batch has been collected, and in the sequence of shard writes no
\* item of a later batch comes before an item of an earlier batch.
C13_BatchesInOrder ==
    /\ \A r, q \in Records :
          submits[r] >= 1 /\ BatchOf(q) < BatchOf(r) => q \in Collected
    /\ \A i, j \in 1..Len(Written) :
          i < j => BatchOf(PosOf(Written[i].key)) <= BatchOf(PosOf(Written[j].key))

\* Batches of one record and a threshold of one: the item of batch 0 was
\* still in `results` when batch 1 was submitted, and one flush wrote both.
C13_Witness ==
    /\ cfg.n = 3
    /\ cfg.batch = 1
    /\ cfg.threshold = 1
    /\ Len(Written) = 2
    /\ PosOf(Written[1].key) = 1
    /\ PosOf(Written[2].key) = 2
    /\ submits[3] = 1

\* ---- C14 --------------------------------------------------------------------
\* The index of the shard that is open.
ShardIndex(s) == s.shard - 1

\* C14: a write rotates exactly when the open shard has count >= maxcount or
\* size >= maxsize; a rotation raises the shard index by one and restarts
\* both counters at zero; without a rotation the index stays; in both cases
\* the write adds 1 to the count and the bytes of the item to the size of
\* the shard it goes to. The shard index never decreases.
C14_RotationRule ==
    [][/\ ShardIndex(sink') >= ShardIndex(sink)
       /\ sink' # sink =>
            LET item == sink'.tars[Len(sink'.tars)][sink'.count]
            IN  /\ Written' = Append(Written, item)
                /\ IF sink.count >= cfg.maxcount \/ sink.size >= cfg.maxsize
                   THEN /\ ShardIndex(sink') = ShardIndex(sink) + 1
                        /\ Len(sink'.tars) = Len(sink.tars) + 1
                        /\ sink'.count = 0 + 1
                        /\ sink'.size = 0 + item.size
                   ELSE /\ ShardIndex(sink') = ShardIndex(sink)
                        /\ Len(sink'.tars) = Len(sink.tars)
                        /\ sink'.count = sink.count + 1
                        /\ sink'.size = sink.size + item.size]_vars

\* The first shard was left for its size with room under the count cap, and
\* the second shard holds one item.
C14_Witness ==
    /\ Len(sink.tars) = 2
    /\ Len(sink.tars[1]) < cfg.maxcount
    /\ sink.count = 1
    /\ sink.size = sink.tars[2][1].size

\* ---- C15 --------------------------------------------------------------------
RECURSIVE Bytes(_)
\* The bytes of the items of a shard.
Bytes(tar) == IF tar = << >> THEN 0 ELSE Head(tar).size + Bytes(Tail(tar))

\* C15: a shard goes over maxsize by at most one item: the size of every
\* shard before its last item was strictly below maxsize, and no item is
\* written into a shard whose size is already at or above maxsize.
C15_OverByAtMostOneItem ==
    /\ [](\A j \in 1..Len(sink.tars) :
            sink.tars[j] # << >> =>
                Bytes(SubSeq(sink.tars[j], 1, Len(sink.tars[j]) - 1)) < cfg.maxsize)
    /\ [][sink' # sink =>
            \/ Len(sink'.tars) > Len(sink.tars)
            \/ Bytes(CurrentTar) < cfg.maxsize]_vars

\* A closed shard of two items that is above the size cap.
C15_Witness ==
    /\ Len(sink.tars) >= 2
    /\ Len(sink.tars[1]) = 2
    /\ Bytes(sink.tars[1]) > cfg.maxsize
    /\ sink.tars[2] # << >>

\* ---- C16 --------------------------------------------------------------------
\* The tasks submitted and not yet received from as_completed.
Outstanding == { r \in Records : submits[r] >= 1 } \ Collected

\* C16 as stated: at most `batch` tasks are submitted and not collected, at
\* most `max_workers` tasks execute at the same time, and over the run, which
\* ends completed or aborted, every record is submitted exactly once.
C16_BoundedAndSubmittedOnce ==
    /\ Cardinality(Outstanding) <= cfg.batch
    /\ Cardinality(Running) <= cfg.max_workers
    /\ \A r \in Records : submits[r] <= 1
    /\ pc \in {"done", "aborted"} => \A r \in Records : submits[r] = 1

\* C16 as amended: the two bounds hold in every reachable state, no record
\* is ever submitted twice, and every record has been submitted exactly once
\* when the run completes without error; a run that aborts leaves the
\* records of the batches after the failing one unsubmitted.
C16_BoundedAndSubmittedAtMostOnce ==
    /\ Cardinality(Outstanding) <= cfg.batch
    /\ Cardinality(Running) <= cfg.max_workers
    /\ \A r \in Records : submits[r] <= 1
    /\ pc = "done" => \A r \in Records : submits[r] = 1
    /\ pc = "aborted" =>
          \A r \in Records :
              submits[r] = (IF \E q \in DOMAIN futures : BatchOf(r) <= BatchOf(q)
                            THEN 1 ELSE 0)

\* A whole batch of two is outstanding with both workers busy, each record
\* of it submitted once and the record of the next batch not yet.
C16_Witness ==
    /\ cfg.n = 3
    /\ cfg.batch = 2
    /\ cfg.max_workers = 2
    /\ Cardinality(Outstanding) = cfg.batch
    /\ Cardinality(Running) = cfg.max_workers
    /\ submits = <<1, 1, 0>>

\* ---- C17 --------------------------------------------------------------------
\* A step of a worker process: a future changes its state and no batch is
\* submitted.
WorkerStep == futures' # futures /\ items' = items

\* C17: a worker step leaves the shard writer and the results buffer as they
\* are; a step that changes either of them is a step of the main control
\* path (collecting or flushing) that moves no future; and a step makes at
\* most one shard write.
C17_SingleWriter ==
    [][/\ WorkerStep => sink' = sink /\ results' = results /\ wi' = wi
       /\ (sink' # sink \/ results' # results) =>
            /\ pc \in {"collect", "flush", "final"}
            /\ futures' = futures
            /\ started' = started
       /\ Len(Written') <= Len(Written) + 1]_vars

\* The first item of a batch of two has been written to the shard while
\* the task of the second, submitted with it, is still executing in a worker.
C17_Witness ==
    /\ cfg.batch = 2
    /\ cfg.threshold = 0
    /\ Len(Written) = 1
    /\ sink.count = 1
    /\ Cardinality(Running) = 1
    /\ results = << >>

\* ---- C18 --------------------------------------------------------------------
\* The orders in which os.listdir may return the same directory.
ListingOrders(l) ==
    { p \in [1..Len(l) -> Range(l)] : \A i, j \in 1..Len(l) : p[i] = p[j] => i = j }

\* C18: the slots of a packaged item are the slots the resolver gives for the
\* record's id on every order of the same listing (the order that was read
\* included): slot assignment depends on the names only.
C18_SlotsIndependentOfListingOrder ==
    \A it \in PackagedItems :
        \A p \in ListingOrders(env.files) :
            slots(item_files(it.key, p)) = it.files

\* A record with two or more files was packaged from a listing that does
\* not give them in sorted order.
C18_Witness ==
    \E it \in PackagedItems :
        /\ Cardinality(it.files) >= 2
        /\ item_files_Unsorted(it.key, env.files) # item_files(it.key, env.files)
        /\ Len(env.files) = MaxFiles

\* ---- C19 --------------------------------------------------------------------
\* The items of `results` that no flush has written yet.
Unwritten ==
    IF pc \in {"flush", "final"} THEN SubSeq(results, wi, Len(results))
    ELSE IF pc = "done" THEN << >>
    ELSE results

\* The items written followed by the items waiting in `results`.
ReceivedLog == Written \o Unwritten

\* C19: while no exception is raised, ReceivedLog grows by exactly the
\* received result, at its end, when the collector receives one, and no
\* other step changes it: it is the sequence of the results in the order
\* received, its written part is always a prefix of it, and it is the whole
\* of what is written when the run is done. `results` is empty right after a
\* threshold flush and never holds more than threshold + 1 items.
C19_WrittenInReceivedOrder ==
    [][err' = NoExc =>
         /\ IF Taken # {}
            THEN \E f \in Taken : ReceivedLog' = Append(ReceivedLog, futures[f].result)
            ELSE ReceivedLog' = ReceivedLog
         /\ pc = "flush" /\ pc' # "flush" => results' = << >> /\ pc' = "collect"
         /\ Len(results') <= cfg.threshold + 1
         /\ pc' = "done" => Written' = ReceivedLog]_vars

\* A completed run that received record 2 before record 1: a threshold
\* flush wrote both in that order and the final flush wrote record 3.
C19_Witness ==
    /\ pc = "done"
    /\ cfg.threshold = 1
    /\ Len(Written) = 3
    /\ [i \in 1..3 |-> PosOf(Written[i].key)] = <<2, 1, 3>>
    /\ Len(results) = 1

\* ---- C20 --------------------------------------------------------------------
\* The exception that reached the main path came out of a packaging task.
TaskFailed == \E r \in Records : err \in TaskExceptions(r)

\* C20: the step in which the main path sees the exception of a task writes
\* nothing and leaves `results` as it is, and no later step writes: the
\* items in `results` at that moment are never written, and what is in the
\* shards of the aborted run is what whole threshold flushes
\* (threshold + 1 items each) had written before.
C20_BufferedItemsNeverWritten ==
    /\ [][(err' # NoExc /\ \E r \in Records : err' \in TaskExceptions(r)) =>
            /\ Written' = Written
            /\ results' = results
            /\ wi' = 1]_vars
    /\ [](TaskFailed =>
            /\ pc \in {"error", "aborted"}
            /\ Keys(results) \cap WrittenKeys = {}
            /\ Len(Written) % (cfg.threshold + 1) = 0
            /\ Cardinality(WrittenKeys) = Len(Written))

\* Scenario D with batches of four and threshold three: the first batch was
\* flushed, record 6 sat in `results` when record 5 failed, and the run
\* ended with records 1 to 4 in the shards only.
C20_Witness ==
    /\ pc = "aborted"
    /\ TaskFailed
    /\ WrittenKeys = 1..4
    /\ results # << >>
    /\ Keys(results) \cap WrittenKeys = {}

====
